---- MODULE Spec2Model ----
(***************************************************************************)
(* Domino Blocks (src/app.js): a 4x4 grid is covered by eight 1x2 dominos; *)
(* four 2x2 blocks carry target sums computed from a hidden solution.      *)
(* The module models the tiling generator, the target calculator and the   *)
(* placement / undo state machine.  DOM rendering is left out; the status  *)
(* line (msgEl.textContent), the rendered targets, the generator's         *)
(* uncaught error, its attempt counter and the number of orientation       *)
(* shuffles it drew are kept as state.                                     *)
(***************************************************************************)
EXTENDS Integers, Sequences, FiniteSets

\* ------------------------------------------------------------------ bounds
\* Math.random() is modelled as a fraction u / RandDen with u in 0..RandDen-1.
RandDen == 60
\* The sampled random sources of the game are numbered 0..MaxSeed.
MaxSeed == 1
\* The player selects dominos with ids 0..MaxSelectId.
MaxSelectId == 2
\* The player clicks the first ClickLimit cells of the grid in row-major order.
ClickLimit == 5
\* The pip tapes of the generator runs are those of sources 0..MaxGenSeed.
MaxGenSeed == 2
\* Length of the tape of orientation shuffles explored exhaustively.
MaxDirDraws == 10

\* --------------------------------------------------------------- constants
SIZE == 4
Null == -1
PipMin == 1
PipMax == 6
RetryCap == 200

Idx == 0..(SIZE - 1)
BLOCKS == << [r |-> 0, c |-> 0], [r |-> 0, c |-> 2],
             [r |-> 2, c |-> 0], [r |-> 2, c |-> 2] >>

Abs(x) == IF x < 0 THEN -x ELSE x

\* ---------------------------------------------------------------- randomness
\* A random source is one outcome of the calls of Math.random(): a tape per
\* call site (orientation shuffles, pip draws, pool shuffle), read cyclically.
RandomAt(tape, k) == tape[((k - 1) % Len(tape)) + 1]

\* Math.floor(Math.random() * n) for the draw u / RandDen
FloorMul(u, n) == (u * n) \div RandDen

randInt(min, max, u) == FloorMul(u, max - min + 1) + min

Swap(a, i, j) == [a EXCEPT ![i] = a[j], ![j] = a[i]]

\* the loop of shuffleArray from 0-based index i down to 1; pos counts the
\* draws already taken from the tape
RECURSIVE ShuffleLoop(_, _, _, _)
ShuffleLoop(a, i, tape, pos) ==
    IF i > 0
    THEN LET j == FloorMul(RandomAt(tape, pos + 1), i + 1)
         IN  ShuffleLoop(Swap(a, i + 1, j + 1), i - 1, tape, pos + 1)
    ELSE [a |-> a, pos |-> pos]

shuffleArray(a, tape, pos) == ShuffleLoop(a, Len(a) - 1, tape, pos)

Stream(seed, site, len) ==
    [k \in 1..len |->
        (seed * seed * 7 + seed * 13 + site * 17 + k * k * (seed + 3) + k * 11)
            % RandDen]

SeedSource(seed) ==
    [dir  |-> Stream(seed, 1, 2 * SIZE * SIZE),
     pip  |-> Stream(seed, 2, 2 * SIZE * SIZE),
     shuf |-> Stream(seed, 3, 2 * SIZE)]

Seeds == 0..MaxSeed
Sources == {SeedSource(s) : s \in Seeds}

\* every outcome of the orientation shuffles, with sampled pips
GenSources ==
    {[dir |-> d, pip |-> SeedSource(s).pip, shuf |-> SeedSource(s).shuf] :
        d \in [1..MaxDirDraws -> {0, RandDen - 1}], s \in 0..MaxGenSeed}

\* ----------------------------------------------------------------- generator
EmptyCells == [r \in Idx |-> [c \in Idx |-> FALSE]]

NoPos == [r |-> Null, c |-> Null]

findFirstEmpty(cells) ==
    IF \E r \in Idx, c \in Idx : ~cells[r][c]
    THEN LET k == CHOOSE k \in 0..(SIZE * SIZE - 1) :
                    /\ ~cells[k \div SIZE][k % SIZE]
                    /\ \A m \in 0..(k - 1) : cells[m \div SIZE][m % SIZE]
         IN  [r |-> k \div SIZE, c |-> k % SIZE]
    ELSE NoPos

Dirs == << [dr |-> 0, dc |-> 1], [dr |-> 1, dc |-> 0] >>

\* g = [cells, tiles, dirPos, pipPos]: the generator's arrays and the number
\* of draws taken so far from the orientation and pip tapes
RECURSIVE tryPlace(_, _), TryDirs(_, _, _, _, _)
\* TryDirs without the test that the neighbour cell is still free
TryDirsIgnoringOccupancy(g, rnd, pos, dirs, i) ==
    IF i > Len(dirs)
    THEN [ok |-> FALSE, g |-> g]
    ELSE LET r  == pos.r
             c  == pos.c
             nr == r + dirs[i].dr
             nc == c + dirs[i].dc
         IN  IF nr >= 0 /\ nr < SIZE /\ nc >= 0 /\ nc < SIZE
             THEN LET v1 == randInt(PipMin, PipMax, RandomAt(rnd.pip, g.pipPos + 1))
                      v2 == randInt(PipMin, PipMax, RandomAt(rnd.pip, g.pipPos + 2))
                      g2 == [cells  |-> [g.cells EXCEPT ![r][c] = TRUE, ![nr][nc] = TRUE],
                             tiles  |-> Append(g.tiles,
                                          [cells |-> << [r |-> r, c |-> c, value |-> v1],
                                                        [r |-> nr, c |-> nc, value |-> v2] >>]),
                             dirPos |-> g.dirPos,
                             pipPos |-> g.pipPos + 2]
                      res == tryPlace(g2, rnd)
                  IN  IF res.ok
                      THEN res
                      ELSE TryDirs([res.g EXCEPT
                                       !.tiles = SubSeq(res.g.tiles, 1, Len(res.g.tiles) - 1),
                                       !.cells = [res.g.cells EXCEPT ![r][c] = FALSE,
                                                                      ![nr][nc] = FALSE]],
                                   rnd, pos, dirs, i + 1)
             ELSE TryDirs(g, rnd, pos, dirs, i + 1)

\* TryDirs giving up after the first direction that leads to a dead end (no
\* backtracking to the other direction)
TryDirsWithoutBacktracking(g, rnd, pos, dirs, i) ==
    IF i > Len(dirs)
    THEN [ok |-> FALSE, g |-> g]
    ELSE LET r  == pos.r
             c  == pos.c
             nr == r + dirs[i].dr
             nc == c + dirs[i].dc
         IN  IF nr >= 0 /\ nr < SIZE /\ nc >= 0 /\ nc < SIZE /\ ~g.cells[nr][nc]
             THEN LET v1 == randInt(PipMin, PipMax, RandomAt(rnd.pip, g.pipPos + 1))
                      v2 == randInt(PipMin, PipMax, RandomAt(rnd.pip, g.pipPos + 2))
                      g2 == [cells  |-> [g.cells EXCEPT ![r][c] = TRUE, ![nr][nc] = TRUE],
                             tiles  |-> Append(g.tiles,
                                          [cells |-> << [r |-> r, c |-> c, value |-> v1],
                                                        [r |-> nr, c |-> nc, value |-> v2] >>]),
                             dirPos |-> g.dirPos,
                             pipPos |-> g.pipPos + 2]
                      res == tryPlace(g2, rnd)
                  IN  IF res.ok
                      THEN res
                      ELSE [ok |-> FALSE,
                            g  |-> [res.g EXCEPT
                                       !.tiles = SubSeq(res.g.tiles, 1, Len(res.g.tiles) - 1),
                                       !.cells = [res.g.cells EXCEPT ![r][c] = FALSE,
                                                                      ![nr][nc] = FALSE]]]
             ELSE TryDirs(g, rnd, pos, dirs, i + 1)

TryDirs(g, rnd, pos, dirs, i) ==
    IF i > Len(dirs)
    THEN [ok |-> FALSE, g |-> g]
    ELSE LET r  == pos.r
             c  == pos.c
             nr == r + dirs[i].dr
             nc == c + dirs[i].dc
         IN  IF nr >= 0 /\ nr < SIZE /\ nc >= 0 /\ nc < SIZE /\ ~g.cells[nr][nc]
             THEN LET v1 == randInt(PipMin, PipMax, RandomAt(rnd.pip, g.pipPos + 1))
                      v2 == randInt(PipMin, PipMax, RandomAt(rnd.pip, g.pipPos + 2))
                      g2 == [cells  |-> [g.cells EXCEPT ![r][c] = TRUE, ![nr][nc] = TRUE],
                             tiles  |-> Append(g.tiles,
                                          [cells |-> << [r |-> r, c |-> c, value |-> v1],
                                                        [r |-> nr, c |-> nc, value |-> v2] >>]),
                             dirPos |-> g.dirPos,
                             pipPos |-> g.pipPos + 2]
                      res == tryPlace(g2, rnd)
                  IN  IF res.ok
                      THEN res
                      ELSE TryDirs([res.g EXCEPT
                                       !.tiles = SubSeq(res.g.tiles, 1, Len(res.g.tiles) - 1),
                                       !.cells = [res.g.cells EXCEPT ![r][c] = FALSE,
                                                                      ![nr][nc] = FALSE]],
                                   rnd, pos, dirs, i + 1)
             ELSE TryDirs(g, rnd, pos, dirs, i + 1)

tryPlace(g, rnd) ==
    LET pos == findFirstEmpty(g.cells)
    IN  IF pos = NoPos
        THEN [ok |-> TRUE, g |-> g]
        ELSE LET sh == shuffleArray(Dirs, rnd.dir, g.dirPos)
             IN  TryDirs([g EXCEPT !.dirPos = sh.pos], rnd, pos, sh.a, 1)

\* the while(true) loop: reset, count the attempt, search, give up past the cap;
\* made is the value of the counter attempts (line 86) when the round starts
RECURSIVE GenerateLoop(_, _, _)
GenerateLoop(g, rnd, made) ==
    LET res == tryPlace([g EXCEPT !.cells = EmptyCells, !.tiles = << >>], rnd)
    IN  IF res.ok
        THEN [tiles |-> res.g.tiles, attempts |-> made + 1, failed |-> FALSE,
              dirDraws |-> res.g.dirPos]
        ELSE IF made + 1 > RetryCap
             THEN [tiles |-> << >>, attempts |-> made + 1, failed |-> TRUE,
                   dirDraws |-> res.g.dirPos]
             ELSE GenerateLoop(res.g, rnd, made + 1)

generateRandomTilingWithValues(rnd) ==
    GenerateLoop([cells |-> EmptyCells, tiles |-> << >>, dirPos |-> 0, pipPos |-> 0],
                 rnd, 0)

\* ---------------------------------------------------------- target calculator
NoCell == [value |-> Null, dominoId |-> Null]

createEmptyBoard == [r \in Idx |-> [c \in Idx |-> NoCell]]

\* all cells of the tiles, in the order tiles.forEach / t.cells.forEach visits them
RECURSIVE TileCells(_)
TileCells(tiles) ==
    IF tiles = << >> THEN << >> ELSE Head(tiles).cells \o TileCells(Tail(tiles))

\* b[cell.r][cell.c] = cell.value for every cell in turn; null stays Null
RECURSIVE FillNumbers(_, _)
FillNumbers(b, cs) ==
    IF cs = << >>
    THEN b
    ELSE FillNumbers([b EXCEPT ![Head(cs).r][Head(cs).c] = Head(cs).value], Tail(cs))

\* a null entry adds 0 to a numeric sum
NumberOf(v) == IF v = Null THEN 0 ELSE v

\* the block sum without the block's last cell (c < bl.c + 1 in the last row)
BlockSumThreeCells(b, bl) ==
    NumberOf(b[bl.r][bl.c]) + NumberOf(b[bl.r][bl.c + 1])
        + NumberOf(b[bl.r + 1][bl.c])

BlockSum(b, bl) ==
    NumberOf(b[bl.r][bl.c]) + NumberOf(b[bl.r][bl.c + 1])
        + NumberOf(b[bl.r + 1][bl.c]) + NumberOf(b[bl.r + 1][bl.c + 1])

computeBlockTargetsFromTiles(tiles) ==
    LET b == FillNumbers([r \in Idx |-> [c \in Idx |-> Null]], TileCells(tiles))
    IN  [i \in 1..Len(BLOCKS) |-> BlockSum(b, BLOCKS[i])]

\* ------------------------------------------------------------- puzzle state
VARIABLES solutionTiles, pool, placed, selectedDominoId, selectionClicks,
          board, history, message, blockTargets, thrown, attempts, dirDraws

vars == << solutionTiles, pool, placed, selectedDominoId, selectionClicks,
           board, history, message, blockTargets, thrown, attempts, dirDraws >>

St == [solutionTiles    |-> solutionTiles,
       pool             |-> pool,
       placed           |-> placed,
       selectedDominoId |-> selectedDominoId,
       selectionClicks  |-> selectionClicks,
       board            |-> board,
       history          |-> history,
       message          |-> message,
       blockTargets     |-> blockTargets,
       thrown           |-> thrown,
       attempts         |-> attempts,
       dirDraws         |-> dirDraws]

Starts(s) ==
    /\ solutionTiles    = s.solutionTiles
    /\ pool             = s.pool
    /\ placed           = s.placed
    /\ selectedDominoId = s.selectedDominoId
    /\ selectionClicks  = s.selectionClicks
    /\ board            = s.board
    /\ history          = s.history
    /\ message          = s.message
    /\ blockTargets     = s.blockTargets
    /\ thrown           = s.thrown
    /\ attempts         = s.attempts
    /\ dirDraws         = s.dirDraws

\* the status line: a text, the count spliced into 'Placed. n of 8 placed.' and
\* the 1-indexed block list spliced into the mismatch notice
Msg(text) == [text |-> text, count |-> 0, wrong |-> << >>]

MsgStart      == "Select a domino then click two adjacent cells to place it."
MsgSelected   == "Domino selected. Click two adjacent empty cells to place it."
MsgSelectFirst == "Select a domino from the pool first."
MsgOccupied   == "Cell already occupied. Pick an empty cell."
MsgNotAdjacent == "Cells not adjacent. Try again."
MsgNotFound   == "Selected domino not found."
MsgPlaced     == "Placed. n of 8 placed."
MsgSecond     == "Select the second adjacent cell for the domino."
MsgNothing    == "Nothing to undo."
MsgUndid      == "Undid last placement."
MsgSolved     == "Congratulations - you solved it!"
MsgWrong      == "All dominos placed, but some blocks do not match targets. Wrong blocks: "

\* the uncaught Error of line 93, or none
NoError     == ""
ErrGenerate == "Failed to generate tiling"

\* the variables as the declarations of lines 19-25 leave them; attempts is the
\* counter of line 86 as the generator's last run left it and dirDraws the
\* number of shuffleArray(dirs) calls of line 67 in that run, 0 before any run
LoadState ==
    [solutionTiles    |-> << >>,
     pool             |-> << >>,
     placed           |-> << >>,
     selectedDominoId |-> Null,
     selectionClicks  |-> << >>,
     board            |-> createEmptyBoard,
     history          |-> << >>,
     message          |-> Msg(""),
     blockTargets     |-> << >>,
     thrown           |-> NoError,
     attempts         |-> 0,
     dirDraws         |-> 0]

\* !v for a value that is null or a number
Falsy(v) == v = Null \/ v = 0

\* the generator's result under each sampled source of the game, computed once
SampleTilings == [rnd \in Sources |-> generateRandomTilingWithValues(rnd)]

Generated(rnd) ==
    IF rnd \in Sources THEN SampleTilings[rnd] ELSE generateRandomTilingWithValues(rnd)

\* initPuzzle without the reset of history (line 41)
initPuzzleKeepingHistory(s, rnd) ==
    LET gen == Generated(rnd)
    IN  IF gen.failed
        THEN [s EXCEPT !.thrown = ErrGenerate, !.attempts = gen.attempts,
                       !.dirDraws = gen.dirDraws]
        ELSE LET tiling == gen.tiles
                 mapped == [i \in 1..Len(tiling) |->
                              [id |-> i - 1,
                               a  |-> tiling[i].cells[1].value,
                               b  |-> tiling[i].cells[2].value]]
             IN  [solutionTiles    |-> tiling,
                  pool             |-> shuffleArray(mapped, rnd.shuf, 0).a,
                  placed           |-> << >>,
                  selectedDominoId |-> Null,
                  selectionClicks  |-> << >>,
                  board            |-> createEmptyBoard,
                  history          |-> s.history,
                  message          |-> Msg(MsgStart),
                  blockTargets     |-> computeBlockTargetsFromTiles(tiling),
                  thrown           |-> s.thrown,
                  attempts         |-> gen.attempts,
                  dirDraws         |-> gen.dirDraws]

initPuzzle(s, rnd) ==
    LET gen == Generated(rnd)
    IN  IF gen.failed
        THEN [s EXCEPT !.thrown = ErrGenerate, !.attempts = gen.attempts,
                       !.dirDraws = gen.dirDraws]
        ELSE LET tiling == gen.tiles
                 mapped == [i \in 1..Len(tiling) |->
                              [id |-> i - 1,
                               a  |-> tiling[i].cells[1].value,
                               b  |-> tiling[i].cells[2].value]]
             IN  [solutionTiles    |-> tiling,
                  pool             |-> shuffleArray(mapped, rnd.shuf, 0).a,
                  placed           |-> << >>,
                  selectedDominoId |-> Null,
                  selectionClicks  |-> << >>,
                  board            |-> createEmptyBoard,
                  history          |-> << >>,
                  message          |-> Msg(MsgStart),
                  blockTargets     |-> computeBlockTargetsFromTiles(tiling),
                  thrown           |-> s.thrown,
                  attempts         |-> gen.attempts,
                  dirDraws         |-> gen.dirDraws]

\* areAdjacent accepting the same cell twice (<= for ===)
areAdjacentOrSame(a, b) ==
    LET dr == Abs(a.r - b.r)
        dc == Abs(a.c - b.c)
    IN  (dr + dc) <= 1

\* areAdjacent accepting diagonal neighbours
areAdjacentDiagonal(a, b) ==
    LET dr == Abs(a.r - b.r)
        dc == Abs(a.c - b.c)
    IN  dr <= 1 /\ dc <= 1 /\ (dr + dc) >= 1

areAdjacent(a, b) ==
    LET dr == Abs(a.r - b.r)
        dc == Abs(a.c - b.c)
    IN  (dr + dc) = 1

\* onSelectDomino without the already-placed test
onSelectDominoUnchecked(s, id) ==
    [s EXCEPT !.selectedDominoId = id,
              !.selectionClicks  = << >>,
              !.message          = Msg(MsgSelected)]

onSelectDomino(s, id) ==
    IF \E i \in 1..Len(s.placed) : s.placed[i].id = id
    THEN s
    ELSE [s EXCEPT !.selectedDominoId = id,
                   !.selectionClicks  = << >>,
                   !.message          = Msg(MsgSelected)]

\* board.flat().some(cell => cell === null)
HasEmptyCell(b) == \E r \in Idx, c \in Idx : b[r][c] = NoCell

\* checkCompletion reporting the 0-based loop indices
checkCompletionZeroIndexed(s) ==
    IF HasEmptyCell(s.board)
    THEN s
    ELSE LET sums == [i \in 1..Len(BLOCKS) |->
                        s.board[BLOCKS[i].r][BLOCKS[i].c].value
                        + s.board[BLOCKS[i].r][BLOCKS[i].c + 1].value
                        + s.board[BLOCKS[i].r + 1][BLOCKS[i].c].value
                        + s.board[BLOCKS[i].r + 1][BLOCKS[i].c + 1].value]
             correctTargets == computeBlockTargetsFromTiles(s.solutionTiles)
             \* i is the 0-based loop index; the sequences are 1-based
             IsWrong(i) == sums[i + 1] # correctTargets[i + 1]
             wrongIdx == SelectSeq([i \in 1..Len(sums) |-> i - 1], IsWrong)
             ok == \A i \in 0..(Len(sums) - 1) : ~IsWrong(i)
         IN  IF ok
             THEN [s EXCEPT !.message = Msg(MsgSolved)]
             ELSE [s EXCEPT !.message =
                      [text |-> MsgWrong, count |-> 0,
                       wrong |-> [k \in 1..Len(wrongIdx) |-> wrongIdx[k]]]]

checkCompletion(s) ==
    IF HasEmptyCell(s.board)
    THEN s
    ELSE LET sums == [i \in 1..Len(BLOCKS) |->
                        s.board[BLOCKS[i].r][BLOCKS[i].c].value
                        + s.board[BLOCKS[i].r][BLOCKS[i].c + 1].value
                        + s.board[BLOCKS[i].r + 1][BLOCKS[i].c].value
                        + s.board[BLOCKS[i].r + 1][BLOCKS[i].c + 1].value]
             correctTargets == computeBlockTargetsFromTiles(s.solutionTiles)
             \* i is the 0-based loop index; the sequences are 1-based
             IsWrong(i) == sums[i + 1] # correctTargets[i + 1]
             wrongIdx == SelectSeq([i \in 1..Len(sums) |-> i - 1], IsWrong)
             ok == \A i \in 0..(Len(sums) - 1) : ~IsWrong(i)
         IN  IF ok
             THEN [s EXCEPT !.message = Msg(MsgSolved)]
             ELSE [s EXCEPT !.message =
                      [text |-> MsgWrong, count |-> 0,
                       wrong |-> [k \in 1..Len(wrongIdx) |-> wrongIdx[k] + 1]]]

\* the placement also written into the solution tile of the domino
PlacementIntoSolution(s, dom, a, b) ==
    LET placements == << [r |-> a.r, c |-> a.c, value |-> dom.a],
                         [r |-> b.r, c |-> b.c, value |-> dom.b] >>
        b1 == [s.board EXCEPT ![placements[1].r][placements[1].c] =
                    [value |-> placements[1].value, dominoId |-> dom.id]]
        b2 == [b1 EXCEPT ![placements[2].r][placements[2].c] =
                    [value |-> placements[2].value, dominoId |-> dom.id]]
        NotDom(x) == x.id # dom.id
        newPlaced == Append(s.placed, [id |-> dom.id, cells |-> placements])
    IN  [s EXCEPT !.board            = b2,
                  !.placed           = newPlaced,
                  !.pool             = SelectSeq(s.pool, NotDom),
                  !.history          = Append(s.history,
                                          [action |-> "place",
                                           dominoId |-> dom.id,
                                           cells |-> placements]),
                  !.solutionTiles    = [s.solutionTiles EXCEPT
                                           ![dom.id + 1] = [cells |-> placements]],
                  !.selectedDominoId = Null,
                  !.selectionClicks  = << >>,
                  !.message          = [text |-> MsgPlaced,
                                        count |-> Len(newPlaced),
                                        wrong |-> << >>]]

\* the placement with dom.b on the first clicked cell and dom.a on the second
PlacementSwappedValues(s, dom, a, b) ==
    LET placements == << [r |-> a.r, c |-> a.c, value |-> dom.b],
                         [r |-> b.r, c |-> b.c, value |-> dom.a] >>
        b1 == [s.board EXCEPT ![placements[1].r][placements[1].c] =
                    [value |-> placements[1].value, dominoId |-> dom.id]]
        b2 == [b1 EXCEPT ![placements[2].r][placements[2].c] =
                    [value |-> placements[2].value, dominoId |-> dom.id]]
        NotDom(x) == x.id # dom.id
        newPlaced == Append(s.placed, [id |-> dom.id, cells |-> placements])
    IN  [s EXCEPT !.board            = b2,
                  !.placed           = newPlaced,
                  !.pool             = SelectSeq(s.pool, NotDom),
                  !.history          = Append(s.history,
                                          [action |-> "place",
                                           dominoId |-> dom.id,
                                           cells |-> placements]),
                  !.selectedDominoId = Null,
                  !.selectionClicks  = << >>,
                  !.message          = [text |-> MsgPlaced,
                                        count |-> Len(newPlaced),
                                        wrong |-> << >>]]

\* the placement without the clearing of the selection (line 229)
PlacementKeepingSelection(s, dom, a, b) ==
    LET placements == << [r |-> a.r, c |-> a.c, value |-> dom.a],
                         [r |-> b.r, c |-> b.c, value |-> dom.b] >>
        b1 == [s.board EXCEPT ![placements[1].r][placements[1].c] =
                    [value |-> placements[1].value, dominoId |-> dom.id]]
        b2 == [b1 EXCEPT ![placements[2].r][placements[2].c] =
                    [value |-> placements[2].value, dominoId |-> dom.id]]
        NotDom(x) == x.id # dom.id
        newPlaced == Append(s.placed, [id |-> dom.id, cells |-> placements])
    IN  [s EXCEPT !.board            = b2,
                  !.placed           = newPlaced,
                  !.pool             = SelectSeq(s.pool, NotDom),
                  !.history          = Append(s.history,
                                          [action |-> "place",
                                           dominoId |-> dom.id,
                                           cells |-> placements]),
                  !.selectionClicks  = << >>,
                  !.message          = [text |-> MsgPlaced,
                                        count |-> Len(newPlaced),
                                        wrong |-> << >>]]

\* lines 216-233: domino dom goes onto the clicked cells a (first) and b (second)
Placement(s, dom, a, b) ==
    LET placements == << [r |-> a.r, c |-> a.c, value |-> dom.a],
                         [r |-> b.r, c |-> b.c, value |-> dom.b] >>
        b1 == [s.board EXCEPT ![placements[1].r][placements[1].c] =
                    [value |-> placements[1].value, dominoId |-> dom.id]]
        b2 == [b1 EXCEPT ![placements[2].r][placements[2].c] =
                    [value |-> placements[2].value, dominoId |-> dom.id]]
        NotDom(x) == x.id # dom.id
        newPlaced == Append(s.placed, [id |-> dom.id, cells |-> placements])
    IN  [s EXCEPT !.board            = b2,
                  !.placed           = newPlaced,
                  !.pool             = SelectSeq(s.pool, NotDom),
                  !.history          = Append(s.history,
                                          [action |-> "place",
                                           dominoId |-> dom.id,
                                           cells |-> placements]),
                  !.selectedDominoId = Null,
                  !.selectionClicks  = << >>,
                  !.message          = [text |-> MsgPlaced,
                                        count |-> Len(newPlaced),
                                        wrong |-> << >>]]

\* pool.find(d => d.id === id): the first match, or NoDomino for undefined
NoDomino == [id |-> Null, a |-> Null, b |-> Null]

PoolFind(p, id) ==
    IF \E i \in 1..Len(p) : p[i].id = id
    THEN p[CHOOSE i \in 1..Len(p) :
                /\ p[i].id = id
                /\ \A k \in 1..(i - 1) : p[k].id # id]
    ELSE NoDomino

\* lines 212-234: the selected domino is looked up, placed, and the board checked
PlaceSelected(s, a, b) ==
    LET dom == PoolFind(s.pool, s.selectedDominoId)
    IN  IF dom = NoDomino
        THEN [s EXCEPT !.message = Msg(MsgNotFound), !.selectionClicks = << >>]
        ELSE checkCompletion(Placement(s, dom, a, b))

\* onCellClick without the test of line 198 for an occupied cell
onCellClickOntoOccupied(s, r, c) ==
    IF Falsy(s.selectedDominoId)
    THEN [s EXCEPT !.message = Msg(MsgSelectFirst)]
    ELSE LET clicks == Append(s.selectionClicks, [r |-> r, c |-> c])
             s1 == [s EXCEPT !.selectionClicks = clicks]
         IN  IF Len(clicks) = 2
             THEN IF ~areAdjacent(clicks[1], clicks[2])
                  THEN [s1 EXCEPT !.selectionClicks = << >>,
                                  !.message = Msg(MsgNotAdjacent)]
                  ELSE PlaceSelected(s1, clicks[1], clicks[2])
             ELSE [s1 EXCEPT !.message = Msg(MsgSecond)]

onCellClick(s, r, c) ==
    IF Falsy(s.selectedDominoId)
    THEN [s EXCEPT !.message = Msg(MsgSelectFirst)]
    ELSE IF s.board[r][c] # NoCell
    THEN [s EXCEPT !.message = Msg(MsgOccupied)]
    ELSE LET clicks == Append(s.selectionClicks, [r |-> r, c |-> c])
             s1 == [s EXCEPT !.selectionClicks = clicks]
         IN  IF Len(clicks) = 2
             THEN IF ~areAdjacent(clicks[1], clicks[2])
                  THEN [s1 EXCEPT !.selectionClicks = << >>,
                                  !.message = Msg(MsgNotAdjacent)]
                  ELSE PlaceSelected(s1, clicks[1], clicks[2])
             ELSE [s1 EXCEPT !.message = Msg(MsgSecond)]

\* undo's clearing loop stopping after the first cell of the entry
ClearCellsFirstOnly(b, cs) ==
    IF cs = << >>
    THEN b
    ELSE [b EXCEPT ![Head(cs).r][Head(cs).c] = NoCell]

\* last.cells.forEach(cell => board[cell.r][cell.c] = null)
RECURSIVE ClearCells(_, _)
ClearCells(b, cs) ==
    IF cs = << >>
    THEN b
    ELSE ClearCells([b EXCEPT ![Head(cs).r][Head(cs).c] = NoCell], Tail(cs))

\* undo restoring the two pip values the wrong way round
undoSwappedPips(s) ==
    IF s.history = << >>
    THEN [s EXCEPT !.message = Msg(MsgNothing)]
    ELSE LET last == s.history[Len(s.history)]
             popped == [s EXCEPT !.history = SubSeq(s.history, 1, Len(s.history) - 1)]
         IN  IF last.action = "place"
             THEN LET sol == s.solutionTiles[last.dominoId + 1]
                      domObj == [id |-> last.dominoId,
                                 a  |-> sol.cells[2].value,
                                 b  |-> sol.cells[1].value]
                      NotLast(p) == p.id # last.dominoId
                  IN  [popped EXCEPT !.board   = ClearCells(s.board, last.cells),
                                     !.pool    = Append(s.pool, domObj),
                                     !.placed  = SelectSeq(s.placed, NotLast),
                                     !.message = Msg(MsgUndid)]
             ELSE popped

\* undo that leaves the entry in the placed list
undoKeepingPlaced(s) ==
    IF s.history = << >>
    THEN [s EXCEPT !.message = Msg(MsgNothing)]
    ELSE LET last == s.history[Len(s.history)]
             popped == [s EXCEPT !.history = SubSeq(s.history, 1, Len(s.history) - 1)]
         IN  IF last.action = "place"
             THEN LET sol == s.solutionTiles[last.dominoId + 1]
                      domObj == [id |-> last.dominoId,
                                 a  |-> sol.cells[1].value,
                                 b  |-> sol.cells[2].value]
                      NotLast(p) == p.id # last.dominoId
                  IN  [popped EXCEPT !.board   = ClearCells(s.board, last.cells),
                                     !.pool    = Append(s.pool, domObj),
                                     !.placed  = s.placed,
                                     !.message = Msg(MsgUndid)]
             ELSE popped

\* undo taking the oldest entry of history (shift for pop)
undoOldest(s) ==
    IF s.history = << >>
    THEN [s EXCEPT !.message = Msg(MsgNothing)]
    ELSE LET last == s.history[1]
             popped == [s EXCEPT !.history = Tail(s.history)]
         IN  IF last.action = "place"
             THEN LET sol == s.solutionTiles[last.dominoId + 1]
                      domObj == [id |-> last.dominoId,
                                 a  |-> sol.cells[1].value,
                                 b  |-> sol.cells[2].value]
                      NotLast(p) == p.id # last.dominoId
                  IN  [popped EXCEPT !.board   = ClearCells(s.board, last.cells),
                                     !.pool    = Append(s.pool, domObj),
                                     !.placed  = SelectSeq(s.placed, NotLast),
                                     !.message = Msg(MsgUndid)]
             ELSE popped

\* undo that also drops the selection and the pending click
undoClearingSelection(s) ==
    IF s.history = << >>
    THEN [s EXCEPT !.message = Msg(MsgNothing)]
    ELSE LET last == s.history[Len(s.history)]
             popped == [s EXCEPT !.history = SubSeq(s.history, 1, Len(s.history) - 1)]
         IN  IF last.action = "place"
             THEN LET sol == s.solutionTiles[last.dominoId + 1]
                      domObj == [id |-> last.dominoId,
                                 a  |-> sol.cells[1].value,
                                 b  |-> sol.cells[2].value]
                      NotLast(p) == p.id # last.dominoId
                  IN  [popped EXCEPT !.board   = ClearCells(s.board, last.cells),
                                     !.pool    = Append(s.pool, domObj),
                                     !.placed  = SelectSeq(s.placed, NotLast),
                                     !.selectedDominoId = Null,
                                     !.selectionClicks  = << >>,
                                     !.message = Msg(MsgUndid)]
             ELSE popped

undo(s) ==
    IF s.history = << >>
    THEN [s EXCEPT !.message = Msg(MsgNothing)]
    ELSE LET last == s.history[Len(s.history)]
             popped == [s EXCEPT !.history = SubSeq(s.history, 1, Len(s.history) - 1)]
         IN  IF last.action = "place"
             THEN LET sol == s.solutionTiles[last.dominoId + 1]
                      domObj == [id |-> last.dominoId,
                                 a  |-> sol.cells[1].value,
                                 b  |-> sol.cells[2].value]
                      NotLast(p) == p.id # last.dominoId
                  IN  [popped EXCEPT !.board   = ClearCells(s.board, last.cells),
                                     !.pool    = Append(s.pool, domObj),
                                     !.placed  = SelectSeq(s.placed, NotLast),
                                     !.message = Msg(MsgUndid)]
             ELSE popped

restart(s, rnd) == initPuzzle(s, rnd)

\* ------------------------------------------------------------------ the game
SelectIds == 0..MaxSelectId

ClickCells == {cell \in [r : Idx, c : Idx] : cell.r * SIZE + cell.c < ClickLimit}

\* the state after the initPuzzle() call of line 325
Init == \E rnd \in Sources : Starts(initPuzzle(LoadState, rnd))

SelectDomino ==
    \E id \in SelectIds :
        \E s \in {onSelectDomino(St, id)} :
            /\ solutionTiles'    = s.solutionTiles
            /\ pool'             = s.pool
            /\ placed'           = s.placed
            /\ selectedDominoId' = s.selectedDominoId
            /\ selectionClicks'  = s.selectionClicks
            /\ board'            = s.board
            /\ history'          = s.history
            /\ message'          = s.message
            /\ blockTargets'     = s.blockTargets
            /\ thrown'           = s.thrown
            /\ attempts'         = s.attempts
            /\ dirDraws'         = s.dirDraws

CellClick ==
    \E cell \in ClickCells :
        \E s \in {onCellClick(St, cell.r, cell.c)} :
            /\ solutionTiles'    = s.solutionTiles
            /\ pool'             = s.pool
            /\ placed'           = s.placed
            /\ selectedDominoId' = s.selectedDominoId
            /\ selectionClicks'  = s.selectionClicks
            /\ board'            = s.board
            /\ history'          = s.history
            /\ message'          = s.message
            /\ blockTargets'     = s.blockTargets
            /\ thrown'           = s.thrown
            /\ attempts'         = s.attempts
            /\ dirDraws'         = s.dirDraws

Undo ==
    \E s \in {undo(St)} :
        /\ solutionTiles'    = s.solutionTiles
        /\ pool'             = s.pool
        /\ placed'           = s.placed
        /\ selectedDominoId' = s.selectedDominoId
        /\ selectionClicks'  = s.selectionClicks
        /\ board'            = s.board
        /\ history'          = s.history
        /\ message'          = s.message
        /\ blockTargets'     = s.blockTargets
        /\ thrown'           = s.thrown
        /\ attempts'         = s.attempts
        /\ dirDraws'         = s.dirDraws

Restart ==
    \E rnd \in Sources :
        \E s \in {restart(St, rnd)} :
            /\ solutionTiles'    = s.solutionTiles
            /\ pool'             = s.pool
            /\ placed'           = s.placed
            /\ selectedDominoId' = s.selectedDominoId
            /\ selectionClicks'  = s.selectionClicks
            /\ board'            = s.board
            /\ history'          = s.history
            /\ message'          = s.message
            /\ blockTargets'     = s.blockTargets
            /\ thrown'           = s.thrown
            /\ attempts'         = s.attempts
            /\ dirDraws'         = s.dirDraws

Next == SelectDomino \/ CellClick \/ Undo \/ Restart

Spec == Init /\ [][Next]_vars

\* ------------------------------------------------- the generator on its own
\* the script before line 325 runs, then initPuzzle() under every outcome of
\* the orientation shuffles
InitGen == Starts(LoadState)

StartPuzzle ==
    /\ solutionTiles = << >>
    /\ \E rnd \in GenSources :
           \E s \in {initPuzzle(St, rnd)} :
               /\ solutionTiles'    = s.solutionTiles
               /\ pool'             = s.pool
               /\ placed'           = s.placed
               /\ selectedDominoId' = s.selectedDominoId
               /\ selectionClicks'  = s.selectionClicks
               /\ board'            = s.board
               /\ history'          = s.history
               /\ message'          = s.message
               /\ blockTargets'     = s.blockTargets
               /\ thrown'           = s.thrown
               /\ attempts'         = s.attempts
               /\ dirDraws'         = s.dirDraws

NextGen == StartPuzzle

SpecGen == InitGen /\ [][NextGen]_vars

\* --------------------------------------------- the completion check on its own
\* checkCompletion as a function of the board and the solution: its inputs are
\* full boards, the eight dominos of a puzzle laid on the tiles of a tiling,
\* domino (i + shift) mod 8 on tile i, every domino flipped or none.
Shifts == 0..(2 * SIZE - 1)

RECURSIVE FillFrom(_, _, _, _, _)
FillFrom(s, tiles, shift, flip, i) ==
    IF i > Len(tiles)
    THEN s
    ELSE LET dom == PoolFind(s.pool, (i - 1 + shift) % (2 * SIZE))
             a == tiles[i].cells[IF flip THEN 2 ELSE 1]
             b == tiles[i].cells[IF flip THEN 1 ELSE 2]
         IN  FillFrom(Placement(s, dom, a, b), tiles, shift, flip, i + 1)

FullBoards ==
    {FillFrom(initPuzzle(LoadState, rnd), Generated(lay).tiles, shift, flip, 1) :
        rnd \in Sources, lay \in Sources, shift \in Shifts, flip \in BOOLEAN}

InitCompletion == \E s \in FullBoards : Starts(s)

CheckCompletion ==
    \E s \in {checkCompletion(St)} :
        /\ solutionTiles'    = s.solutionTiles
        /\ pool'             = s.pool
        /\ placed'           = s.placed
        /\ selectedDominoId' = s.selectedDominoId
        /\ selectionClicks'  = s.selectionClicks
        /\ board'            = s.board
        /\ history'          = s.history
        /\ message'          = s.message
        /\ blockTargets'     = s.blockTargets
        /\ thrown'           = s.thrown
        /\ attempts'         = s.attempts
        /\ dirDraws'         = s.dirDraws

NextCompletion == CheckCompletion

SpecCompletion == InitCompletion /\ [][NextCompletion]_vars

\* ===================================================================== claims
Cells == [r : Idx, c : Idx]

Unoccupied(s, cell) == s.board[cell.r][cell.c] = NoCell

\* grid-adjacent: the coordinates differ by exactly 1 in exactly one of them
GridAdjacent(p, q) ==
    \/ (p.r = q.r /\ (p.c = q.c + 1 \/ q.c = p.c + 1))
    \/ (p.c = q.c /\ (p.r = q.r + 1 \/ q.r = p.r + 1))

\* selectDomino(id), clickCell(p), clickCell(q)
PlaceRun(s, id, p, q) ==
    onCellClick(onCellClick(onSelectDomino(s, id), p.r, p.c), q.r, q.c)

\* C1: for every domino in the Pool, after selectDomino(id) a clickCell on an
\* unoccupied cell is accepted: the cell is appended to the pending click list
\* and the click is not rejected as 'no domino selected'.
C1_ClickAfterSelectAccepted ==
    \A i \in 1..Len(pool) : \A cell \in Cells :
        Unoccupied(St, cell) =>
            LET s1 == onSelectDomino(St, pool[i].id)
                s2 == onCellClick(s1, cell.r, cell.c)
            IN  /\ s2.selectionClicks = Append(s1.selectionClicks, cell)
                /\ s2.message.text # MsgSelectFirst

\* the state right after initPuzzle
FreshPuzzle ==
    /\ Len(pool) = 2 * SIZE
    /\ placed = << >>
    /\ history = << >>
    /\ selectedDominoId = Null
    /\ selectionClicks = << >>
    /\ ~\E cell \in Cells : ~Unoccupied(St, cell)
    /\ message = Msg(MsgStart)

\* for tiles i, i+1, ... of the solution: select the domino, click its two cells
RECURSIVE SolveFrom(_, _)
SolveFrom(s, i) ==
    IF i > Len(s.solutionTiles)
    THEN s
    ELSE SolveFrom(PlaceRun(s, i - 1, s.solutionTiles[i].cells[1],
                            s.solutionTiles[i].cells[2]), i + 1)

\* C2: from the state after initPuzzle, placing every solution tile i through
\* selectDomino(i), clickCell(first cell), clickCell(second cell) fills all 16
\* cells with the solution's values and the completion check reports solved.
C2_SolutionRunSolves ==
    FreshPuzzle =>
        LET s == SolveFrom(St, 1)
        IN  /\ \A i \in 1..Len(solutionTiles) : \A k \in 1..2 :
                 LET cell == solutionTiles[i].cells[k]
                 IN  s.board[cell.r][cell.c].value = cell.value
            /\ ~HasEmptyCell(s.board)
            /\ s.message.text = MsgSolved

\* C3: for any domino {id,a,b} in the Pool and any two grid-adjacent unoccupied
\* cells p and q, selectDomino(id), clickCell(p), clickCell(q) puts {a,id} on p
\* and {b,id} on q, takes the domino out of the Pool, appends one entry to Placed
\* and one place-action to History, leaves nothing selected and nothing pending,
\* and changes no other cell.
C3_PlacementEffect ==
    \A i \in 1..Len(pool) : \A p \in Cells, q \in Cells :
        (Unoccupied(St, p) /\ Unoccupied(St, q) /\ GridAdjacent(p, q)) =>
            LET d == pool[i]
                s == PlaceRun(St, d.id, p, q)
            IN  /\ s.board[p.r][p.c] = [value |-> d.a, dominoId |-> d.id]
                /\ s.board[q.r][q.c] = [value |-> d.b, dominoId |-> d.id]
                /\ \A x \in Cells \ {p, q} : s.board[x.r][x.c] = board[x.r][x.c]
                /\ ~\E k \in 1..Len(s.pool) : s.pool[k].id = d.id
                /\ Len(s.pool) = Len(pool) - 1
                /\ Len(s.placed) = Len(placed) + 1
                /\ s.placed[Len(s.placed)].id = d.id
                /\ Len(s.history) = Len(history) + 1
                /\ s.history[Len(s.history)].action = "place"
                /\ s.history[Len(s.history)].dominoId = d.id
                /\ s.selectedDominoId = Null
                /\ s.selectionClicks = << >>

\* C4: for every outcome of the random choices the generator returns (it does
\* not throw) exactly 8 tiles; every one of the 16 cells is covered by exactly
\* one tile half, the two cells of each tile are grid-adjacent and every pip
\* value is in 1..6.
C4_GeneratedTilingValid ==
    (solutionTiles # << >> \/ thrown # NoError) =>
        /\ thrown = NoError
        /\ Len(solutionTiles) = 8
        /\ \A cell \in Cells :
             Cardinality({h \in (1..Len(solutionTiles)) \X (1..2) :
                            /\ solutionTiles[h[1]].cells[h[2]].r = cell.r
                            /\ solutionTiles[h[1]].cells[h[2]].c = cell.c}) = 1
        /\ \A i \in 1..Len(solutionTiles) :
             /\ Len(solutionTiles[i].cells) = 2
             /\ GridAdjacent(solutionTiles[i].cells[1], solutionTiles[i].cells[2])
             /\ \A k \in 1..2 : solutionTiles[i].cells[k].value \in 1..6

\* a generated tiling with dominos of both orientations
C4_Witness ==
    /\ solutionTiles # << >>
    /\ thrown = NoError
    /\ \E i \in 1..Len(solutionTiles) :
         solutionTiles[i].cells[1].r = solutionTiles[i].cells[2].r
    /\ \E i \in 1..Len(solutionTiles) :
         solutionTiles[i].cells[1].c = solutionTiles[i].cells[2].c

PoolSet(p) == {p[i] : i \in 1..Len(p)}

\* the two pools hold the same dominos, each once, in any order
SamePool(p1, p2) ==
    /\ Len(p1) = Len(p2)
    /\ PoolSet(p1) = PoolSet(p2)
    /\ Cardinality(PoolSet(p1)) = Len(p1)

AllIds == 0..(2 * SIZE - 1)

\* C5: from a state with no domino selected and no pending clicks, a successful
\* placement selectDomino(id), clickCell(p), clickCell(q) followed by undo()
\* gives back the pre-placement state: p and q unoccupied, the domino in the
\* Pool with its original a/b, the placed count as before, and Board, Pool (as a
\* set), Placed, History, selection and pending clicks equal to their old values.
\* Stated on the steps of such a run: selecting and the first click leave Board,
\* Pool, Placed and History alone, and undo() applied to the state the placing
\* click produces gives them back, with nothing selected and nothing pending.
C5_UndoRoundTrip ==
    [][ /\ message'.text \in {MsgSelected, MsgSecond} =>
              UNCHANGED << board, pool, placed, history >>
        /\ Len(history') = Len(history) + 1 =>
              \A s4 \in {undo(St')} :
                  LET id == history'[Len(history')].dominoId
                  IN  /\ \A cell \in Cells :
                           board'[cell.r][cell.c] # board[cell.r][cell.c] =>
                               Unoccupied(s4, cell)
                      /\ \E k \in 1..Len(pool) : \E j \in 1..Len(s4.pool) :
                           pool[k].id = id /\ s4.pool[j] = pool[k]
                      /\ Len(s4.placed) = Len(placed') - 1
                      /\ Len(s4.placed) = Len(placed)
                      /\ s4.board = board
                      /\ SamePool(s4.pool, pool)
                      /\ s4.placed = placed
                      /\ s4.history = history
                      /\ s4.selectedDominoId = Null
                      /\ s4.selectionClicks = << >> ]_vars

\* an undo has brought the game back to a state with nothing selected
C5_Witness ==
    /\ message.text = MsgUndid
    /\ selectedDominoId = Null
    /\ selectionClicks = << >>
    /\ Len(pool) = 2 * SIZE

Manhattan(p, q) == Abs(p.r - q.r) + Abs(p.c - q.c)

\* C6: with a domino selected and one cell pending, a second click on an
\* unoccupied cell at Manhattan distance other than 1 from the first (the same
\* cell included) is rejected: the pending list becomes empty, the domino stays
\* selected, and Board, Pool, Placed and History do not change.
C6_NonAdjacentRejected ==
    (selectedDominoId # Null /\ Len(selectionClicks) = 1) =>
        \A cell \in Cells :
            (Unoccupied(St, cell) /\ Manhattan(selectionClicks[1], cell) # 1) =>
                LET s == onCellClick(St, cell.r, cell.c)
                IN  /\ s.selectionClicks = << >>
                    /\ s.selectedDominoId = selectedDominoId
                    /\ s.board = board
                    /\ s.pool = pool
                    /\ s.placed = placed
                    /\ s.history = history

\* a second click has just been rejected as not adjacent
C6_Witness ==
    /\ message.text = MsgNotAdjacent
    /\ selectedDominoId # Null
    /\ selectionClicks = << >>

Core(s) == << s.board, s.pool, s.placed, s.history, s.selectedDominoId,
              s.selectionClicks >>

IsPlaced(s, id) == \E i \in 1..Len(s.placed) : s.placed[i].id = id

\* C7: clickCell with no domino selected, clickCell on an occupied cell, undo()
\* with empty History and selectDomino of an already placed domino each leave
\* Board, Pool, Placed, History, the selection and the pending clicks unchanged.
C7_RejectedInputsKeepState ==
    /\ \A cell \in Cells :
         (selectedDominoId = Null \/ ~Unoccupied(St, cell)) =>
             Core(onCellClick(St, cell.r, cell.c)) = Core(St)
    /\ history = << >> => Core(undo(St)) = Core(St)
    /\ \A id \in AllIds : IsPlaced(St, id) => Core(onSelectDomino(St, id)) = Core(St)

\* a click on an occupied cell was rejected while another cell was pending
C7_Witness ==
    /\ message.text = MsgOccupied
    /\ selectedDominoId # Null
    /\ Len(selectionClicks) = 1
    /\ placed # << >>

\* C9: each domino id 0..7 appears exactly once across Pool and Placed together:
\* never twice in the Pool, never twice in Placed, never in both, never in none.
C9_IdsOnceAcrossPoolAndPlaced ==
    \A id \in AllIds :
        Cardinality({k \in 1..Len(pool) : pool[k].id = id})
            + Cardinality({k \in 1..Len(placed) : placed[k].id = id}) = 1

\* one domino is placed and another has come back to the Pool through undo
C9_Witness ==
    /\ message.text = MsgUndid
    /\ placed # << >>
    /\ Len(pool) + Len(placed) = 2 * SIZE

CellsOf(id) == {cell \in Cells : board[cell.r][cell.c].dominoId = id}

\* C10: any two distinct cells whose entries carry the same domino id are
\* grid-adjacent, and no domino id occupies more than two cells (a cell holds
\* one entry, so at most one domino).
C10_SameDominoCellsAdjacent ==
    \A id \in AllIds :
        /\ Cardinality(CellsOf(id)) <= 2
        /\ \A x \in CellsOf(id), y \in CellsOf(id) : x # y => GridAdjacent(x, y)

\* two dominos lie on the board
C10_Witness ==
    /\ Len(placed) = 2
    /\ \A i \in 1..Len(placed) : Cardinality(CellsOf(placed[i].id)) = 2

\* the solution's value on a cell, and the board's
SolutionValue(cell) ==
    LET h == CHOOSE h \in (1..Len(solutionTiles)) \X (1..2) :
                 /\ solutionTiles[h[1]].cells[h[2]].r = cell.r
                 /\ solutionTiles[h[1]].cells[h[2]].c = cell.c
    IN  solutionTiles[h[1]].cells[h[2]].value

BoardValue(cell) == board[cell.r][cell.c].value

\* the four cells of the i-th fixed 2x2 block at (0,0), (0,2), (2,0), (2,2)
BlockCorner(i) == << <<0, 0>>, <<0, 2>>, <<2, 0>>, <<2, 2>> >>[i]

BlockCell(i, dr, dc) == [r |-> BlockCorner(i)[1] + dr, c |-> BlockCorner(i)[2] + dc]

BlockTotal(i, V(_)) ==
    V(BlockCell(i, 0, 0)) + V(BlockCell(i, 0, 1))
        + V(BlockCell(i, 1, 0)) + V(BlockCell(i, 1, 1))

\* the 1-indexed blocks (top-left=1, top-right=2, bottom-left=3, bottom-right=4)
\* whose board sum differs from the solution's
WrongBlocks ==
    {i \in 1..4 : BlockTotal(i, BoardValue) # BlockTotal(i, SolutionValue)}

CheckHasRun == message.text \in {MsgSolved, MsgWrong}

\* C8: when the placements have left all 16 cells occupied and some block sum
\* differs from its target, the completion check reports unsolved and the
\* reported wrong-block list is exactly the 1-indexed positions, in BLOCKS
\* order, of the blocks whose board sum differs from the solution target.
C8_WrongBlocksReported ==
    (CheckHasRun /\ ~HasEmptyCell(board) /\ WrongBlocks # {}) =>
        /\ message.text = MsgWrong
        /\ {message.wrong[k] : k \in 1..Len(message.wrong)} = WrongBlocks
        /\ Len(message.wrong) = Cardinality(WrongBlocks)
        /\ \A k \in 1..(Len(message.wrong) - 1) : message.wrong[k] < message.wrong[k + 1]

\* a full board on which two blocks miss their targets has been checked (the
\* eight dominos keep the total, so one block alone cannot be wrong)
C8_Witness ==
    /\ CheckHasRun
    /\ ~HasEmptyCell(board)
    /\ Cardinality(WrongBlocks) = 2
    /\ Len(message.wrong) = 2

\* the value a tiling puts on a cell
TilingValue(tiles, cell) ==
    LET h == CHOOSE h \in (1..Len(tiles)) \X (1..2) :
                 /\ tiles[h[1]].cells[h[2]].r = cell.r
                 /\ tiles[h[1]].cells[h[2]].c = cell.c
    IN  tiles[h[1]].cells[h[2]].value

\* a fully reset, internally valid puzzle
ResetValid(s) ==
    /\ \A cell \in Cells : Unoccupied(s, cell)
    /\ s.placed = << >>
    /\ s.history = << >>
    /\ s.selectedDominoId = Null
    /\ s.selectionClicks = << >>
    /\ Len(s.solutionTiles) = 2 * SIZE
    /\ Len(s.pool) = 2 * SIZE
    /\ {s.pool[i].id : i \in 1..Len(s.pool)} = AllIds
    /\ \A i \in 1..Len(s.pool) :
         /\ s.pool[i].a = s.solutionTiles[s.pool[i].id + 1].cells[1].value
         /\ s.pool[i].b = s.solutionTiles[s.pool[i].id + 1].cells[2].value
    /\ Len(s.blockTargets) = 4
    /\ \A i \in 1..4 :
         s.blockTargets[i] =
             TilingValue(s.solutionTiles, BlockCell(i, 0, 0))
             + TilingValue(s.solutionTiles, BlockCell(i, 0, 1))
             + TilingValue(s.solutionTiles, BlockCell(i, 1, 0))
             + TilingValue(s.solutionTiles, BlockCell(i, 1, 1))

\* C11: restart() from any reachable state yields a fully reset, internally
\* valid puzzle: no occupied cell, Placed and History empty, nothing selected,
\* nothing pending, the Pool holding exactly the dominos 0..7 with the pips of
\* the new solution tile of that id, the targets those of the new solution; a
\* second restart() right after the first gives such a state again.
\* Stated on the steps: initPuzzle alone writes the opening status line, so a
\* step that ends with it is a restart(), whatever state it leaves; a restart()
\* taken in a state that still shows it follows a restart() or the first
\* initPuzzle() with nothing in between.
C11_RestartResets ==
    [][ /\ message'.text = MsgStart => ResetValid(St')
        /\ (message.text = MsgStart /\ message'.text = MsgStart) =>
              (ResetValid(St) /\ ResetValid(St')) ]_vars

\* a state to restart from: a domino selected, a click pending, a domino placed
C11_Witness ==
    /\ selectedDominoId # Null
    /\ Len(selectionClicks) = 1
    /\ placed # << >>
    /\ history # << >>

RECURSIVE SumValues(_)
SumValues(cs) == IF cs = << >> THEN 0 ELSE Head(cs).value + SumValues(Tail(cs))

\* C12: for a valid tiling with pips in 1..6, computeBlockTargetsFromTiles
\* returns four targets whose total is the sum of the 16 pip values, each the
\* sum of the four solution values of its 2x2 block at (0,0), (0,2), (2,0),
\* (2,2), and calling it again on the same tiling gives the targets computed
\* when the puzzle was created.
C12_TargetsFromTiling ==
    solutionTiles # << >> =>
        \A t \in {computeBlockTargetsFromTiles(solutionTiles)} :
            /\ Len(t) = 4
            /\ t[1] + t[2] + t[3] + t[4] = SumValues(TileCells(solutionTiles))
            /\ \A i \in 1..4 : t[i] = BlockTotal(i, SolutionValue)
            /\ t = blockTargets

\* the targets of a tiling with a domino that lies across two blocks, and with
\* two blocks of different sums
C12_Witness ==
    /\ solutionTiles # << >>
    /\ \E i \in 1..Len(solutionTiles) :
         /\ solutionTiles[i].cells[1].r = 1
         /\ solutionTiles[i].cells[2].r = 2
    /\ \E i \in 1..4, j \in 1..4 : blockTargets[i] # blockTargets[j]
    /\ \A i \in 1..Len(solutionTiles) : \A k \in 1..2 :
         solutionTiles[i].cells[k].value \in PipMin..PipMax

\* C13: between two restarts the solution tiling and its targets do not change:
\* no step of selectDomino, clickCell (accepted or rejected) or undo changes
\* solutionTiles or the displayed targets, and in every state the targets the
\* completion check computes from solutionTiles are the targets computed and
\* displayed when the puzzle was created.
C13_SolutionImmutable ==
    /\ [](computeBlockTargetsFromTiles(solutionTiles) = blockTargets)
    /\ [][message'.text # MsgStart =>
             UNCHANGED << solutionTiles, blockTargets >>]_vars

\* a domino lies on cells that are not those of its solution tile
C13_Witness ==
    /\ \E i \in 1..Len(placed) :
         \/ placed[i].cells[1].r # solutionTiles[placed[i].id + 1].cells[1].r
         \/ placed[i].cells[1].c # solutionTiles[placed[i].id + 1].cells[1].c
    /\ message.text = MsgPlaced
    /\ computeBlockTargetsFromTiles(solutionTiles) = blockTargets

\* initPuzzle() has run: it returned a tiling or the generator threw
GeneratorHasRun == solutionTiles # << >> \/ thrown # NoError

\* C14: for every outcome of the orientation shuffles the generator ends with a
\* tiling and never throws 'Failed to generate tiling': the attempt counter
\* never passes the retry cap of 200, because the backtracking search from the
\* empty grid succeeds in its first top-level attempt.  No run shuffles the
\* orientations more than MaxDirDraws times, so the tapes of that length are
\* every outcome of the shuffles.
C14_GeneratorTerminates ==
    GeneratorHasRun =>
        /\ thrown = NoError
        /\ solutionTiles # << >>
        /\ attempts <= RetryCap
        /\ attempts = 1
        /\ dirDraws <= MaxDirDraws

\* a run that met a dead end and backtracked (it shuffled the orientations
\* more often than the eight dominos of its tiling need) and still returned
\* from the first attempt
C14_Witness ==
    /\ GeneratorHasRun
    /\ thrown = NoError
    /\ attempts = 1
    /\ dirDraws > 2 * SIZE

Front(q) == SubSeq(q, 1, Len(q) - 1)

\* the board the placements recorded in h produce on an empty board
RECURSIVE HistoryBoard(_)
HistoryBoard(h) ==
    IF h = << >>
    THEN createEmptyBoard
    ELSE LET e == h[Len(h)]
             b == HistoryBoard(Front(h))
         IN  [b EXCEPT ![e.cells[1].r][e.cells[1].c] =
                           [value |-> e.cells[1].value, dominoId |-> e.dominoId],
                       ![e.cells[2].r][e.cells[2].c] =
                           [value |-> e.cells[2].value, dominoId |-> e.dominoId]]

\* k undo() calls in a row
RECURSIVE UndoTimes(_, _)
UndoTimes(s, k) == IF k = 0 THEN s ELSE UndoTimes(undo(s), k - 1)

\* C15: History is a stack.  It grows by exactly one entry on each successful
\* placement and by nothing else; undo() removes exactly its last entry and
\* never pushes one; each undo() reverts the most recent placement not yet
\* undone, so k undo() calls in a row after k placements take the entries off
\* in reverse placement order and leave the board as it was before those k
\* placements (the board the remaining entries produce).
C15_HistoryIsStack ==
    /\ [](\A k \in 0..Len(history) :
             \A u \in {UndoTimes(St, k)} :
                 /\ u.history = SubSeq(history, 1, Len(history) - k)
                 /\ u.board = HistoryBoard(u.history)
                 /\ Len(u.placed) = Len(u.history)
                 /\ \A i \in 1..Len(u.placed) : u.placed[i].id = u.history[i].dominoId)
    /\ [][ /\ Len(history') > Len(history) =>
                 /\ Len(placed') = Len(placed) + 1
                 /\ history' = Append(history,
                                      [action   |-> "place",
                                       dominoId |-> placed'[Len(placed')].id,
                                       cells    |-> placed'[Len(placed')].cells])
           /\ Len(placed') > Len(placed) => Len(history') = Len(history) + 1
           /\ message'.text = MsgUndid =>
                 (history # << >> /\ history' = Front(history))
           /\ message'.text = MsgNothing =>
                 (history = << >> /\ history' = << >>) ]_vars

\* two placements of different dominos are on the stack, to be undone in turn
C15_Witness ==
    /\ Len(history) = 2
    /\ history[1].dominoId # history[2].dominoId
    /\ UndoTimes(St, 2).history = << >>
    /\ UndoTimes(St, 2).board = createEmptyBoard

\* the pips a and b of domino id in the solution tiling
CanonicalA(id) == solutionTiles[id + 1].cells[1].value

CanonicalB(id) == solutionTiles[id + 1].cells[2].value

\* C16: in every reachable state each domino in the Pool has a and b equal to
\* the values of the first and second cell of solutionTiles[id], each Placed
\* entry holds a on its first-clicked cell and b on its second-clicked cell,
\* and so the domino undo() puts back, built from the solution tiling, has the
\* values of the placement it discards.
C16_CanonicalValues ==
    [](/\ \A i \in 1..Len(pool) :
            /\ pool[i].a = CanonicalA(pool[i].id)
            /\ pool[i].b = CanonicalB(pool[i].id)
       /\ \A i \in 1..Len(placed) :
            /\ placed[i].cells[1].value = CanonicalA(placed[i].id)
            /\ placed[i].cells[2].value = CanonicalB(placed[i].id)
       /\ history # << >> =>
            \A u \in {undo(St)} :
                \A last \in {history[Len(history)]} :
                    u.pool[Len(u.pool)] = [id |-> last.dominoId,
                                           a  |-> last.cells[1].value,
                                           b  |-> last.cells[2].value])

\* a domino with two different pips is back in the Pool through undo while
\* another one lies on the board
C16_Witness ==
    /\ message.text = MsgUndid
    /\ Len(placed) = 1
    /\ pool[Len(pool)].a # pool[Len(pool)].b
    /\ placed[1].cells[1].value # placed[1].cells[2].value

Occupied == {cell \in Cells : ~Unoccupied(St, cell)}

\* the halves (entry i of Placed, cell k of it) that lie on a cell
HalvesOn(cell) ==
    {h \in (1..Len(placed)) \X (1..2) :
        /\ placed[h[1]].cells[h[2]].r = cell.r
        /\ placed[h[1]].cells[h[2]].c = cell.c}

\* C17: in every reachable state the board, Placed and History agree: the
\* occupied cells are exactly the cells listed in Placed entries, an occupied
\* cell holds the value and the id of the Placed entry that lists it, there are
\* 2 x |Placed| occupied cells, and History lists the domino ids of Placed in
\* the same order (|History| = |Placed|).
C17_BoardPlacedHistoryAgree ==
    /\ \A cell \in Cells :
         /\ Unoccupied(St, cell) <=> HalvesOn(cell) = {}
         /\ \A h \in HalvesOn(cell) :
              board[cell.r][cell.c] = [value    |-> placed[h[1]].cells[h[2]].value,
                                       dominoId |-> placed[h[1]].id]
    /\ Cardinality(Occupied) = 2 * Len(placed)
    /\ Len(history) = Len(placed)
    /\ \A i \in 1..Len(placed) :
         /\ history[i].dominoId = placed[i].id
         /\ history[i].cells = placed[i].cells

\* one placement has been undone and one domino is left on the board
C17_Witness ==
    /\ message.text = MsgUndid
    /\ Len(history) = 1
    /\ Cardinality(Occupied) = 2

\* C18: between operations the pending click list holds at most one cell, it is
\* non-empty only while a domino is selected, and a pending cell is unoccupied
\* on the board, for every interleaving of select, click, undo and restart; so
\* a successful placement never overwrites an occupied cell: the two cells it
\* fills were unoccupied before the placing click.
C18_PendingClicks ==
    /\ [](/\ Len(selectionClicks) <= 1
          /\ selectionClicks # << >> => selectedDominoId # Null
          /\ \A i \in 1..Len(selectionClicks) : Unoccupied(St, selectionClicks[i]))
    /\ [][Len(placed') = Len(placed) + 1 =>
             \A cell \in Cells :
                 board'[cell.r][cell.c] # board[cell.r][cell.c] =>
                     Unoccupied(St, cell)]_vars

\* a first click is pending next to a cell another domino occupies
C18_Witness ==
    /\ message.text = MsgSecond
    /\ Len(selectionClicks) = 1
    /\ \E cell \in Cells :
         /\ ~Unoccupied(St, cell)
         /\ GridAdjacent(cell, selectionClicks[1])

InPool(s, id) == \E i \in 1..Len(s.pool) : s.pool[i].id = id

\* C19: in every reachable state a selected domino (selectedDominoId not null)
\* is in the Pool and not in Placed, so no sequence of select, click, undo and
\* restart takes the 'Selected domino not found.' branch of clickCell: the
\* status line never shows that text.
C19_SelectedInPool ==
    /\ selectedDominoId # Null =>
          (InPool(St, selectedDominoId) /\ ~IsPlaced(St, selectedDominoId))
    /\ message.text # MsgNotFound

\* a domino is selected from a Pool that has lost a domino to the board
C19_Witness ==
    /\ selectedDominoId # Null
    /\ message.text = MsgSelected
    /\ Len(pool) < 2 * SIZE
    /\ InPool(St, selectedDominoId)

\* C20: undo() leaves the current selection untouched: with a domino selected
\* and one cell pending, undo() of an earlier placement changes neither the
\* selected domino nor the pending click list, and a following clickCell on an
\* unoccupied cell adjacent to the pending one completes the placement of the
\* selected domino on the pending cell and the clicked cell.
C20_UndoKeepsSelection ==
    [](( /\ selectedDominoId # Null
         /\ Len(selectionClicks) = 1
         /\ history # << >> ) =>
           \A u \in {undo(St)} :
               /\ u.selectedDominoId = selectedDominoId
               /\ u.selectionClicks = selectionClicks
               /\ \A q \in Cells : Unoccupied(St, q) => Unoccupied(u, q)
               /\ \A q \in Cells :
                    (GridAdjacent(q, selectionClicks[1]) /\ Unoccupied(u, q)) =>
                        \A s \in {onCellClick(u, q.r, q.c)} :
                            /\ Len(s.placed) = Len(u.placed) + 1
                            /\ s.placed[Len(s.placed)].id = selectedDominoId
                            /\ s.board[selectionClicks[1].r][selectionClicks[1].c].dominoId
                                   = selectedDominoId
                            /\ s.board[q.r][q.c].dominoId = selectedDominoId
                            /\ ~InPool(s, selectedDominoId)
                            /\ s.selectedDominoId = Null
                            /\ s.selectionClicks = << >>)

\* an undo has run while a domino was selected and a click was pending
C20_Witness ==
    /\ message.text = MsgUndid
    /\ selectedDominoId # Null
    /\ Len(selectionClicks) = 1
====
